---- MODULE Spec2Model ----
(***************************************************************************)
(* Trip lifecycle service of the journey API: the HTTP handlers of package *)
(* api (trip, participant confirmation), the store port they call, and the *)
(* detached mail notifications they spawn.                                 *)
(***************************************************************************)
EXTENDS Integers, Sequences, FiniteSets, TLC

VARIABLES
    trips,          \* table trips: id -> row
    participants,   \* table participants: id -> row
    activities,     \* table activities: id -> row
    pending,        \* spawned notification goroutines that have not run yet
    sent,           \* the latest notification run: its sends, in order
    req,            \* per request slot: the running handler's position and locals
    calls,          \* number of requests started so far
    last,           \* the latest response returned to a caller, with its call
    hist            \* history: what the calls so far were given and answered,
                    \* the trip rows as they were created, and how many
                    \* times each notification has run

vars == <<trips, participants, activities, pending, sent, req, calls, last, hist>>

----------------------------------------------------------------------------
(* Bounds of the model *)

MaxTrips == 2
MaxCalls == 3
MaxActivities == 2
MaxListed == 3
MaxDays == 3
NumProcs == 2

(* Program constants *)

MinDestinationLen == 4

----------------------------------------------------------------------------
(* Inputs *)

Procs == 1 .. NumProcs
TripIDs == 1 .. MaxTrips
ParticipantIDs == 1 .. (2 * MaxTrips)

\* time.Time values are 1, 2; 0 is the zero time, which `validate:"required"`
\* rejects.
CreateTripRequest(destination, starts_at, ends_at, name, email, invite) ==
    [destination |-> destination, starts_at |-> starts_at, ends_at |-> ends_at,
     owner_name |-> name, owner_email |-> email, emails_to_invite |-> invite]

CreateTripRequests ==
    { CreateTripRequest("Roma", 1, 2, "Ana", "ana@x.com", <<"bob@x.com">>),
      CreateTripRequest("Lima", 2, 1, "Ana", "ana@x.com", <<>>),
      CreateTripRequest("Rio", 1, 2, "Ana", "ana@x.com", <<"bob@x.com">>),
      CreateTripRequest("Roma", 0, 2, "Ana", "ana@x.com", <<"bob@x.com">>),
      CreateTripRequest("Roma", 1, 0, "Ana", "ana@x.com", <<"bob@x.com">>),
      CreateTripRequest("Roma", 1, 2, "", "ana@x.com", <<"bob@x.com">>),
      CreateTripRequest("Roma", 1, 2, "Ana", "bad", <<"bob@x.com">>),
      CreateTripRequest("Roma", 1, 2, "Ana", "ana@x.com", <<"bad">>) }

UpdateTripRequest(destination, starts_at, ends_at) ==
    [destination |-> destination, starts_at |-> starts_at, ends_at |-> ends_at]

UpdateTripRequests ==
    { UpdateTripRequest("Lima", 2, 2),
      UpdateTripRequest("Rio", 1, 2),
      UpdateTripRequest("Roma", 0, 2),
      UpdateTripRequest("Roma", 1, 0) }

\* Times are counted in half days from 1: 1 and 2 are the first day, 3 and 4
\* the second; the odd ones are the midnights.
CreateActivityRequest(title, occurs_at) == [title |-> title, occurs_at |-> occurs_at]

CreateActivityRequests ==
    { CreateActivityRequest("Tour", 2),
      CreateActivityRequest("", 2),
      CreateActivityRequest("Tour", 0) }

\* The textual ids a caller can put in the path.
IdTexts == {<<"uuid", n>> : n \in TripIDs} \cup {<<"junk">>}

ParticipantIdTexts == {<<"uuid", n>> : n \in ParticipantIDs} \cup {<<"junk">>}

----------------------------------------------------------------------------
(* Values *)

NoTrip ==
    [id |-> 0, destination |-> "", starts_at |-> 0, ends_at |-> 0,
     is_confirmed |-> FALSE, owner_name |-> "", owner_email |-> ""]

NoParticipant == [id |-> 0, trip_id |-> 0, email |-> "", is_confirmed |-> FALSE]

NoTripObj ==
    [ID |-> <<>>, Destination |-> "", EndsAt |-> 0, StartsAt |-> 0,
     IsConfirmed |-> FALSE]

NoBody == CreateTripRequest("", 0, 0, "", "", <<>>)

\* an update body, recorded in the shape of a call's body
BodyOf(body) ==
    CreateTripRequest(body.destination, body.starts_at, body.ends_at, "", "", <<>>)

Response(status, message) ==
    [status |-> status, message |-> message, tripId |-> <<>>, trip |-> NoTripObj,
     participants |-> <<>>, activityId |-> <<>>, activities |-> <<>>]

NoResponse == Response(0, "")

\* a request slot with no handler running
Idle ==
    [op |-> "none", pc |-> "idle", id |-> 0, trip |-> NoTrip,
     participant |-> NoParticipant, parentConfirmed |-> FALSE]

\* variant: a text that is no uuid parses to the zero uuid without an error
ParseUUIDLenient(text) ==
    IF Len(text) = 2 /\ text[1] = "uuid"
    THEN [err |-> FALSE, id |-> text[2]]
    ELSE [err |-> FALSE, id |-> 0]

\* uuid.Parse / uuid.String
ParseUUID(text) ==
    IF Len(text) = 2 /\ text[1] = "uuid"
    THEN [err |-> FALSE, id |-> text[2]]
    ELSE [err |-> TRUE, id |-> 0]

UUIDString(id) == <<"uuid", id>>

IsEmail(e) == e \in {"ana@x.com", "bob@x.com"}

\* variant: the destination's `min=4` tag is missing
ValidCreateTripRequestNoMin(body) ==
    /\ body.destination # ""
    /\ \A i \in 1 .. Len(body.emails_to_invite) : IsEmail(body.emails_to_invite[i])
    /\ body.ends_at # 0
    /\ IsEmail(body.owner_email)
    /\ body.owner_name # ""
    /\ body.starts_at # 0

\* validator.Struct on CreateTripRequest
ValidCreateTripRequest(body) ==
    /\ Len(body.destination) >= MinDestinationLen
    /\ \A i \in 1 .. Len(body.emails_to_invite) : IsEmail(body.emails_to_invite[i])
    /\ body.ends_at # 0
    /\ IsEmail(body.owner_email)
    /\ body.owner_name # ""
    /\ body.starts_at # 0

\* validator.Struct on UpdateTripRequest
ValidUpdateTripRequest(body) ==
    /\ Len(body.destination) >= MinDestinationLen
    /\ body.ends_at # 0
    /\ body.starts_at # 0

\* validator.Struct on CreateActivityRequest
ValidCreateActivityRequest(body) ==
    /\ body.occurs_at # 0
    /\ body.title # ""

----------------------------------------------------------------------------
(* The store port (package pgstore) *)

ConnError == [err |-> "conn", trip |-> NoTrip, participant |-> NoParticipant]

\* store.GetTrip: the row, or pgx.ErrNoRows
GetTrip(id) ==
    IF id \in DOMAIN trips
    THEN [err |-> "", trip |-> trips[id], participant |-> NoParticipant]
    ELSE [err |-> "ErrNoRows", trip |-> NoTrip, participant |-> NoParticipant]

\* store.GetParticipant
GetParticipant(id) ==
    IF id \in DOMAIN participants
    THEN [err |-> "", trip |-> NoTrip, participant |-> participants[id]]
    ELSE [err |-> "ErrNoRows", trip |-> NoTrip, participant |-> NoParticipant]

\* store.GetParticipants: the participants of a trip, in id order
RECURSIVE ParticipantsFrom(_, _)
ParticipantsFrom(tripID, n) ==
    IF n = 0 THEN <<>>
    ELSE LET rest == ParticipantsFrom(tripID, n - 1)
         IN  IF n \in DOMAIN participants /\ participants[n].trip_id = tripID
             THEN Append(rest, participants[n])
             ELSE rest

GetParticipants(tripID) == ParticipantsFrom(tripID, Cardinality(DOMAIN participants))

\* store.UpdateTrip: replaces the four columns of the row with that id
UpdateTrip(arg) ==
    IF arg.ID \in DOMAIN trips
    THEN [trips EXCEPT ![arg.ID] =
            [@ EXCEPT !.destination = arg.Destination, !.ends_at = arg.EndsAt,
                      !.starts_at = arg.StartsAt, !.is_confirmed = arg.IsConfirmed]]
    ELSE trips

\* store.ConfirmParticipant: check-then-write in one step; rejects a
\* participant that is already confirmed
ConfirmParticipant(id) ==
    IF id \in DOMAIN participants /\ ~participants[id].is_confirmed
    THEN [err |-> "", rows |-> [participants EXCEPT ![id].is_confirmed = TRUE]]
    ELSE [err |-> "rejected", rows |-> participants]

\* store.CreateTrip: the trip row, the owner's participant row and one
\* participant row per invited email, in one transaction
NewTripID == Cardinality(DOMAIN trips) + 1

CreateTripRows(body) ==
    NewTripID :> [id |-> NewTripID, destination |-> body.destination,
                  starts_at |-> body.starts_at, ends_at |-> body.ends_at,
                  is_confirmed |-> FALSE, owner_name |-> body.owner_name,
                  owner_email |-> body.owner_email]

CreateParticipantRows(body) ==
    LET base == Cardinality(DOMAIN participants)
        emails == <<body.owner_email>> \o body.emails_to_invite
    IN  [n \in (base + 1) .. (base + Len(emails)) |->
            [id |-> n, trip_id |-> NewTripID, email |-> emails[n - base],
             is_confirmed |-> (n = base + 1)]]

\* store.GetTripActivities: the activities of a trip, in id order
RECURSIVE ActivitiesFrom(_, _)
ActivitiesFrom(tripID, n) ==
    IF n = 0 THEN <<>>
    ELSE LET rest == ActivitiesFrom(tripID, n - 1)
         IN  IF n \in DOMAIN activities /\ activities[n].trip_id = tripID
             THEN Append(rest, activities[n])
             ELSE rest

GetTripActivities(tripID) == ActivitiesFrom(tripID, Cardinality(DOMAIN activities))

\* store.CreateActivity: inserts the row; the reference to the trip is
\* checked by the store
NewActivityID == Cardinality(DOMAIN activities) + 1

\* variant: the row takes the place of the first activity
CreateActivityOverFirst(arg) ==
    [err |-> "", id |-> 1,
     rows |-> (1 :> [id |-> 1, trip_id |-> arg.TripID, title |-> arg.Title,
                     occurs_at |-> arg.OccursAt]) @@ activities]

CreateActivity(arg) ==
    IF arg.TripID \in DOMAIN trips
    THEN [err |-> "", id |-> NewActivityID,
          rows |-> activities @@
                   (NewActivityID :> [id |-> NewActivityID, trip_id |-> arg.TripID,
                                      title |-> arg.Title, occurs_at |-> arg.OccursAt])]
    ELSE [err |-> "fk", id |-> 0, rows |-> activities]

----------------------------------------------------------------------------
(* Handlers of package api.  A handler runs from one store access to the   *)
(* next in one step; a store access may fail with a connection error.      *)

SomethingWrong == "Something went wrong, try again"

NotifKinds == {"owner", "participants"}

CanStart(p) == req[p].pc = "idle" /\ calls < MaxCalls

\* The call's record: its operation and parsed id, the response, the number
\* of store writes and of store reads it invoked, whether a store access of
\* it met a connection error, the body it was given, and what its lookup saw.
Call(op, id, resp, writes, storeFailed) ==
    [n |-> last.n + 1, op |-> op, id |-> id, resp |-> resp, writes |-> writes,
     reads |-> 0, storeFailed |-> storeFailed, body |-> NoBody,
     seenConfirmed |-> FALSE, parentConfirmed |-> FALSE]

\* variant: the go statement is left out
SpawnNone(kind, tripID) == pending

\* variant: the goroutine is started twice
SpawnTwice(kind, tripID) == [pending EXCEPT ![<<kind, tripID>>] = @ + 2]

\* go func() { api.mailer.Send...(tripID) }()
Spawn(kind, tripID) == [pending EXCEPT ![<<kind, tripID>>] = @ + 1]

(* POST /trips *)

\* variant: the error of store.CreateTrip is dropped
PostTripsResponseIgnoringError(err, tripID) ==
    [Response(201, "") EXCEPT !.tripId = UUIDString(tripID)]

PostTripsResponse(err, tripID) ==
    IF err # ""
    THEN Response(400, SomethingWrong)
    ELSE [Response(201, "") EXCEPT !.tripId = UUIDString(tripID)]

PostTrips(p) ==
    /\ CanStart(p)
    /\ calls' = calls + 1
    /\ \E body \in CreateTripRequests, fail \in BOOLEAN :
        IF ~ValidCreateTripRequest(body)
        THEN /\ last' = [Call("PostTrips", 0, Response(400, "Invalid request body"),
                              0, FALSE) EXCEPT !.body = body]
             /\ UNCHANGED <<trips, participants, pending, hist>>
        ELSE IF fail \/ Cardinality(DOMAIN trips) = MaxTrips
        THEN /\ fail
             /\ last' = [Call("PostTrips", 0, PostTripsResponse("conn", 0), 1, TRUE)
                            EXCEPT !.body = body]
             /\ UNCHANGED <<trips, participants, pending, hist>>
        ELSE /\ trips' = trips @@ CreateTripRows(body)
             /\ participants' = participants @@ CreateParticipantRows(body)
             /\ pending' = Spawn("owner", NewTripID)
             /\ last' = [Call("PostTrips", NewTripID,
                              PostTripsResponse("", NewTripID), 1, FALSE)
                            EXCEPT !.body = body]
             /\ hist' = [hist EXCEPT
                            !.returned = Append(@, ParseUUID(last'.resp.tripId).id),
                            !.invited = @ @@ (NewTripID :> body.emails_to_invite),
                            !.created = @ @@ CreateTripRows(body)]
    /\ UNCHANGED <<sent, activities, req>>

(* GET /trips/{tripId} *)

\* variant: EndsAt is filled from the wrong column
TripDetailsSwapped(trip) ==
    [ID |-> UUIDString(trip.id), Destination |-> trip.destination,
     EndsAt |-> trip.starts_at, StartsAt |-> trip.starts_at,
     IsConfirmed |-> trip.is_confirmed]

TripDetails(trip) ==
    [ID |-> UUIDString(trip.id), Destination |-> trip.destination,
     EndsAt |-> trip.ends_at, StartsAt |-> trip.starts_at,
     IsConfirmed |-> trip.is_confirmed]

GetTripsTripIDResponse(got) ==
    IF got.err = "ErrNoRows" THEN Response(400, "Trip not found")
    ELSE IF got.err # "" THEN Response(400, SomethingWrong)
    ELSE [Response(200, "") EXCEPT !.trip = TripDetails(got.trip)]

GetTripsTripID(p) ==
    /\ CanStart(p)
    /\ calls' = calls + 1
    /\ \E text \in IdTexts, fail \in BOOLEAN :
        LET parsed == ParseUUID(text)
            got == IF fail THEN ConnError ELSE GetTrip(parsed.id)
        IN  IF parsed.err
            THEN last' = Call("GetTripsTripID", 0, Response(400, "Invalid trip ID"),
                              0, FALSE)
            ELSE last' = [Call("GetTripsTripID", parsed.id,
                               GetTripsTripIDResponse(got), 0, fail)
                             EXCEPT !.reads = 1]
    /\ UNCHANGED <<trips, participants, pending, sent, activities, req, hist>>

(* PUT /trips/{tripId} *)

\* variant: a missing row does not end the call
PutTripsTripIDLookupIgnoringNoRows(got) ==
    IF got.err = "ErrNoRows" THEN NoResponse
    ELSE IF got.err # "" THEN Response(400, SomethingWrong)
    ELSE NoResponse

\* the outcome of the lookup: a response that ends the call, or NoResponse
PutTripsTripIDLookup(got) ==
    IF got.err = "ErrNoRows" THEN Response(400, "Trip not found")
    ELSE IF got.err # "" THEN Response(400, SomethingWrong)
    ELSE NoResponse

\* variant: IsConfirmed is left at its zero value
PutTripsTripIDParamsUnconfirmed(id, body, trip) ==
    [ID |-> id, Destination |-> body.destination, EndsAt |-> body.ends_at,
     StartsAt |-> body.starts_at, IsConfirmed |-> FALSE]

PutTripsTripIDParams(id, body, trip) ==
    [ID |-> id, Destination |-> body.destination, EndsAt |-> body.ends_at,
     StartsAt |-> body.starts_at, IsConfirmed |-> trip.is_confirmed]

PutTripsTripIDRead(p) ==
    /\ CanStart(p)
    /\ calls' = calls + 1
    /\ \E text \in IdTexts, fail \in BOOLEAN :
        LET parsed == ParseUUID(text)
            got == IF fail THEN ConnError ELSE GetTrip(parsed.id)
            early == PutTripsTripIDLookup(got)
        IN  IF parsed.err
            THEN /\ last' = Call("PutTripsTripID", 0,
                                 Response(400, "Invalid trip ID"), 0, FALSE)
                 /\ UNCHANGED req
            ELSE IF early # NoResponse
            THEN /\ last' = [Call("PutTripsTripID", parsed.id, early, 0, fail)
                                EXCEPT !.reads = 1]
                 /\ UNCHANGED req
            ELSE /\ req' = [req EXCEPT ![p] =
                            [Idle EXCEPT !.op = "PutTripsTripID", !.pc = "read",
                                         !.id = parsed.id, !.trip = got.trip]]
                 /\ UNCHANGED last
    /\ UNCHANGED <<trips, participants, pending, sent, activities, hist>>

PutTripsTripIDWrite(p) ==
    /\ req[p].op = "PutTripsTripID" /\ req[p].pc = "read"
    /\ req' = [req EXCEPT ![p] = Idle]
    /\ \E body \in UpdateTripRequests, fail \in BOOLEAN :
        LET call(resp, writes, failed) ==
                [Call(req[p].op, req[p].id, resp, writes, failed)
                    EXCEPT !.body = BodyOf(body), !.reads = 1,
                           !.seenConfirmed = req[p].trip.is_confirmed]
        IN  IF ~ValidUpdateTripRequest(body)
            THEN /\ last' = call(Response(400, "Invalid request body"), 0, FALSE)
                 /\ UNCHANGED trips
            ELSE IF fail
            THEN /\ last' = call(Response(400, SomethingWrong), 1, TRUE)
                 /\ UNCHANGED trips
            ELSE /\ trips' = UpdateTrip(PutTripsTripIDParams(req[p].id, body,
                                                             req[p].trip))
                 /\ last' = call(Response(204, ""), 1, FALSE)
    /\ UNCHANGED <<participants, pending, sent, activities, calls, hist>>

(* GET /trips/{tripId}/confirm *)

\* variant: a trip that is already confirmed is confirmed again
GetTripsTripIDConfirmLookupNoOp(got) ==
    IF got.err = "ErrNoRows" THEN Response(400, "Trip not found")
    ELSE IF got.err # "" THEN Response(400, SomethingWrong)
    ELSE NoResponse

GetTripsTripIDConfirmLookup(got) ==
    IF got.err = "ErrNoRows" THEN Response(400, "Trip not found")
    ELSE IF got.err # "" THEN Response(400, SomethingWrong)
    ELSE IF got.trip.is_confirmed THEN Response(400, "Trip already confirmed")
    ELSE NoResponse

GetTripsTripIDConfirmParams(id, trip) ==
    [ID |-> id, Destination |-> trip.destination, EndsAt |-> trip.ends_at,
     StartsAt |-> trip.starts_at, IsConfirmed |-> TRUE]

GetTripsTripIDConfirmRead(p) ==
    /\ CanStart(p)
    /\ calls' = calls + 1
    /\ \E text \in IdTexts, fail \in BOOLEAN :
        LET parsed == ParseUUID(text)
            got == IF fail THEN ConnError ELSE GetTrip(parsed.id)
            early == GetTripsTripIDConfirmLookup(got)
        IN  IF parsed.err
            THEN /\ last' = Call("GetTripsTripIDConfirm", 0,
                                 Response(400, "Invalid trip ID"), 0, FALSE)
                 /\ UNCHANGED req
            ELSE IF early # NoResponse
            THEN /\ last' = [Call("GetTripsTripIDConfirm", parsed.id, early, 0, fail)
                                EXCEPT !.reads = 1,
                                       !.seenConfirmed = got.trip.is_confirmed]
                 /\ UNCHANGED req
            ELSE /\ req' = [req EXCEPT ![p] =
                            [Idle EXCEPT !.op = "GetTripsTripIDConfirm",
                                         !.pc = "read", !.id = parsed.id,
                                         !.trip = got.trip]]
                 /\ UNCHANGED last
    /\ UNCHANGED <<trips, participants, pending, sent, activities, hist>>

\* variant: the notification is spawned whether or not the write succeeded
GetTripsTripIDConfirmWriteAlwaysSpawns(p) ==
    /\ req[p].op = "GetTripsTripIDConfirm" /\ req[p].pc = "read"
    /\ req' = [req EXCEPT ![p] = Idle]
    /\ pending' = Spawn("participants", req[p].id)
    /\ \E fail \in BOOLEAN :
        IF fail
        THEN /\ last' = [Call(req[p].op, req[p].id, Response(400, SomethingWrong),
                              1, TRUE) EXCEPT !.reads = 1]
             /\ UNCHANGED <<trips, hist>>
        ELSE /\ trips' = UpdateTrip(GetTripsTripIDConfirmParams(req[p].id, req[p].trip))
             /\ hist' = [hist EXCEPT !.tripConfirms[req[p].id] = @ + 1]
             /\ last' = [Call(req[p].op, req[p].id, Response(204, ""), 1, FALSE)
                            EXCEPT !.reads = 1]
    /\ UNCHANGED <<participants, sent, activities, calls>>

GetTripsTripIDConfirmWrite(p) ==
    /\ req[p].op = "GetTripsTripIDConfirm" /\ req[p].pc = "read"
    /\ req' = [req EXCEPT ![p] = Idle]
    /\ \E fail \in BOOLEAN :
        IF fail
        THEN /\ last' = [Call(req[p].op, req[p].id, Response(400, SomethingWrong),
                              1, TRUE) EXCEPT !.reads = 1]
             /\ UNCHANGED <<trips, pending, hist>>
        ELSE /\ trips' = UpdateTrip(GetTripsTripIDConfirmParams(req[p].id, req[p].trip))
             /\ pending' = Spawn("participants", req[p].id)
             /\ hist' = [hist EXCEPT !.tripConfirms[req[p].id] = @ + 1]
             /\ last' = [Call(req[p].op, req[p].id, Response(204, ""), 1, FALSE)
                            EXCEPT !.reads = 1]
    /\ UNCHANGED <<participants, sent, activities, calls>>

(* PATCH /participants/{participantId}/confirm *)

\* the trip a participant row points at is confirmed (no handler reads it;
\* it is recorded with the call)
ParentConfirmed(got) ==
    /\ got.err = ""
    /\ got.participant.trip_id \in DOMAIN trips
    /\ trips[got.participant.trip_id].is_confirmed

\* variant: a participant can confirm only once the trip is confirmed
PatchParticipantsParticipantIDConfirmLookupNeedsTrip(got) ==
    IF got.err = "ErrNoRows" THEN Response(400, "Participant not found")
    ELSE IF got.err # "" THEN Response(400, SomethingWrong)
    ELSE IF got.participant.is_confirmed
    THEN Response(400, "Participant already confirmed")
    ELSE IF ~ParentConfirmed(got) THEN Response(400, "Trip not confirmed")
    ELSE NoResponse

\* variant: a missing row is answered like any other store error
PatchParticipantsParticipantIDConfirmLookupNoRowsGeneric(got) ==
    IF got.err # "" THEN Response(400, SomethingWrong)
    ELSE IF got.participant.is_confirmed
    THEN Response(400, "Participant already confirmed")
    ELSE NoResponse

PatchParticipantsParticipantIDConfirmLookup(got) ==
    IF got.err = "ErrNoRows" THEN Response(400, "Participant not found")
    ELSE IF got.err # "" THEN Response(400, SomethingWrong)
    ELSE IF got.participant.is_confirmed
    THEN Response(400, "Participant already confirmed")
    ELSE NoResponse

\* variant: the error of store.ConfirmParticipant is dropped
PatchParticipantsParticipantIDConfirmResponseIgnoringError(err) == Response(204, "")

PatchParticipantsParticipantIDConfirmResponse(err) ==
    IF err # "" THEN Response(400, SomethingWrong) ELSE Response(204, "")

PatchParticipantsParticipantIDConfirmRead(p) ==
    /\ CanStart(p)
    /\ calls' = calls + 1
    /\ \E text \in ParticipantIdTexts, fail \in BOOLEAN :
        LET parsed == ParseUUID(text)
            got == IF fail THEN ConnError ELSE GetParticipant(parsed.id)
            early == PatchParticipantsParticipantIDConfirmLookup(got)
            op == "PatchParticipantsParticipantIDConfirm"
        IN  IF parsed.err
            THEN /\ last' = Call(op, 0, Response(400, "Invalid participant ID"),
                                 0, FALSE)
                 /\ UNCHANGED req
            ELSE IF early # NoResponse
            THEN /\ last' = [Call(op, parsed.id, early, 0, fail)
                                EXCEPT !.reads = 1,
                                       !.seenConfirmed = got.participant.is_confirmed,
                                       !.parentConfirmed = ParentConfirmed(got)]
                 /\ UNCHANGED req
            ELSE /\ req' = [req EXCEPT ![p] =
                            [Idle EXCEPT !.op = op, !.pc = "read", !.id = parsed.id,
                                         !.participant = got.participant,
                                         !.parentConfirmed = ParentConfirmed(got)]]
                 /\ UNCHANGED last
    /\ UNCHANGED <<trips, participants, pending, sent, activities, hist>>

\* variant: the write stores the negation of the flag instead of true
PatchParticipantsParticipantIDConfirmWriteToggle(p) ==
    /\ req[p].op = "PatchParticipantsParticipantIDConfirm" /\ req[p].pc = "read"
    /\ req' = [req EXCEPT ![p] = Idle]
    /\ participants' = [participants EXCEPT ![req[p].id].is_confirmed = ~@]
    /\ hist' = [hist EXCEPT !.participantConfirms[req[p].id] = @ + 1]
    /\ last' = [Call(req[p].op, req[p].id, Response(204, ""), 1, FALSE)
                   EXCEPT !.reads = 1, !.parentConfirmed = req[p].parentConfirmed]
    /\ UNCHANGED <<trips, pending, sent, activities, calls>>

\* variant: the store is given the id of the participant's trip
PatchParticipantsParticipantIDConfirmWriteByTripID(p) ==
    /\ req[p].op = "PatchParticipantsParticipantIDConfirm" /\ req[p].pc = "read"
    /\ req' = [req EXCEPT ![p] = Idle]
    /\ \E fail \in BOOLEAN :
        LET res == IF fail THEN [err |-> "conn", rows |-> participants]
                   ELSE ConfirmParticipant(req[p].participant.trip_id)
            resp == PatchParticipantsParticipantIDConfirmResponse(res.err)
        IN  /\ participants' = res.rows
            /\ hist' = IF resp.status = 204
                       THEN [hist EXCEPT !.participantConfirms[req[p].id] = @ + 1]
                       ELSE hist
            /\ last' = [Call(req[p].op, req[p].id, resp, 1, fail)
                           EXCEPT !.reads = 1,
                                  !.parentConfirmed = req[p].parentConfirmed]
    /\ UNCHANGED <<trips, pending, sent, activities, calls>>

PatchParticipantsParticipantIDConfirmWrite(p) ==
    /\ req[p].op = "PatchParticipantsParticipantIDConfirm" /\ req[p].pc = "read"
    /\ req' = [req EXCEPT ![p] = Idle]
    /\ \E fail \in BOOLEAN :
        LET res == IF fail THEN [err |-> "conn", rows |-> participants]
                   ELSE ConfirmParticipant(req[p].id)
            resp == PatchParticipantsParticipantIDConfirmResponse(res.err)
        IN  /\ participants' = res.rows
            /\ hist' = IF resp.status = 204
                       THEN [hist EXCEPT !.participantConfirms[req[p].id] = @ + 1]
                       ELSE hist
            /\ last' = [Call(req[p].op, req[p].id, resp, 1, fail)
                           EXCEPT !.reads = 1,
                                  !.parentConfirmed = req[p].parentConfirmed]
    /\ UNCHANGED <<trips, pending, sent, activities, calls>>

(* GET /trips/{tripId}/participants *)

GetTripsTripIDParticipantsLookup(got) ==
    IF got.err = "ErrNoRows" THEN Response(400, "Trip not found")
    ELSE IF got.err # "" THEN Response(400, SomethingWrong)
    ELSE NoResponse

\* variant: IsConfirmed is left at its zero value
ParticipantsResponseUnconfirmed(list) ==
    [i \in 1 .. Len(list) |->
        [ID |-> UUIDString(list[i].id), Email |-> list[i].email,
         IsConfirmed |-> FALSE]]

ParticipantsResponse(list) ==
    [i \in 1 .. Len(list) |->
        [ID |-> UUIDString(list[i].id), Email |-> list[i].email,
         IsConfirmed |-> list[i].is_confirmed]]

GetTripsTripIDParticipantsResponse(err, list) ==
    IF err # "" THEN Response(400, SomethingWrong)
    ELSE [Response(200, "") EXCEPT !.participants = ParticipantsResponse(list)]

\* The handler reads the trip and then its participants; of the trip it uses
\* the id only, and no handler removes a trip, so the two reads are one step.
GetTripsTripIDParticipants(p) ==
    /\ CanStart(p)
    /\ calls' = calls + 1
    /\ \E text \in IdTexts, fail \in BOOLEAN, listFails \in BOOLEAN :
        LET parsed == ParseUUID(text)
            got == IF fail THEN ConnError ELSE GetTrip(parsed.id)
            early == GetTripsTripIDParticipantsLookup(got)
            op == "GetTripsTripIDParticipants"
        IN  IF parsed.err
            THEN last' = Call(op, 0, Response(400, "Invalid trip ID"), 0, FALSE)
            ELSE IF early # NoResponse
            THEN last' = [Call(op, parsed.id, early, 0, fail) EXCEPT !.reads = 1]
            ELSE last' = [Call(op, parsed.id,
                               GetTripsTripIDParticipantsResponse(
                                   IF listFails THEN "conn" ELSE "",
                                   GetParticipants(got.trip.id)),
                               0, listFails)
                             EXCEPT !.reads = 2]
    /\ UNCHANGED <<trips, participants, activities, pending, sent, req, hist>>

(* GET /trips/{tripId}/activities *)

\* time.Time.Date(): the calendar day of a time, and time.Date(y, m, d, 0,
\* 0, 0, 0, time.UTC): the midnight of a day
Date(t) == (t + 1) \div 2

\* variant: the time of day is left at noon
MidnightNoon(day) == 2 * day

Midnight(day) == 2 * day - 1

\* variant: the times are compared whole, time of day included
SameDateExact(t, u) == t = u

SameDate(t, u) == Date(t) = Date(u)

\* variant: a date met for the first time is put in front
FirstPassStepPrepend(prev, activity) ==
    LET differentDates == prev.differentDates
    IN  IF ~\E i \in 1 .. Len(differentDates) :
                SameDate(differentDates[i].Time, activity.occurs_at)
        THEN [differentDates |->
                 <<[Time |-> Midnight(Date(activity.occurs_at)), Amount |-> 1]>>
                 \o differentDates,
              qtd |-> prev.qtd + 1]
        ELSE [differentDates |->
                 [i \in 1 .. Len(differentDates) |->
                     IF SameDate(differentDates[i].Time, activity.occurs_at)
                     THEN [differentDates[i] EXCEPT !.Amount = @ + 1]
                     ELSE differentDates[i]],
              qtd |-> prev.qtd]

\* variant: an activity on a date already met leaves the counter of the
\* date as it is
FirstPassStepAmountOnce(prev, activity) ==
    LET differentDates == prev.differentDates
    IN  IF ~\E i \in 1 .. Len(differentDates) :
                SameDate(differentDates[i].Time, activity.occurs_at)
        THEN [differentDates |->
                 Append(differentDates,
                        [Time |-> Midnight(Date(activity.occurs_at)), Amount |-> 1]),
              qtd |-> prev.qtd + 1]
        ELSE prev

\* variant: qtd is counted up for every activity
FirstPassStepQtdEveryActivity(prev, activity) ==
    LET differentDates == prev.differentDates
    IN  IF ~\E i \in 1 .. Len(differentDates) :
                SameDate(differentDates[i].Time, activity.occurs_at)
        THEN [differentDates |->
                 Append(differentDates,
                        [Time |-> Midnight(Date(activity.occurs_at)), Amount |-> 1]),
              qtd |-> prev.qtd + 1]
        ELSE [differentDates |->
                 [i \in 1 .. Len(differentDates) |->
                     IF SameDate(differentDates[i].Time, activity.occurs_at)
                     THEN [differentDates[i] EXCEPT !.Amount = @ + 1]
                     ELSE differentDates[i]],
              qtd |-> prev.qtd + 1]

\* one turn of the loop of the first pass: a date not yet in differentDates
\* is appended with the counter 1 and qtd is counted up; otherwise the
\* counter of the date is counted up
FirstPassStep(prev, activity) ==
    LET differentDates == prev.differentDates
    IN  IF ~\E i \in 1 .. Len(differentDates) :
                SameDate(differentDates[i].Time, activity.occurs_at)
        THEN [differentDates |->
                 Append(differentDates,
                        [Time |-> Midnight(Date(activity.occurs_at)), Amount |-> 1]),
              qtd |-> prev.qtd + 1]
        ELSE [differentDates |->
                 [i \in 1 .. Len(differentDates) |->
                     IF SameDate(differentDates[i].Time, activity.occurs_at)
                     THEN [differentDates[i] EXCEPT !.Amount = @ + 1]
                     ELSE differentDates[i]],
              qtd |-> prev.qtd]

\* the first pass over the first n activities
RECURSIVE FirstPass(_, _)
FirstPass(list, n) ==
    IF n = 0 THEN [differentDates |-> <<>>, qtd |-> 0]
    ELSE FirstPassStep(FirstPass(list, n - 1), list[n])

\* variant: the scan of the second pass starts at the second activity
RECURSIVE ActivitiesInnerResponseFromSecond(_, _, _)
ActivitiesInnerResponseFromSecond(list, item, n) ==
    IF n <= 1 THEN <<>>
    ELSE LET rest == ActivitiesInnerResponseFromSecond(list, item, n - 1)
         IN  IF SameDate(item.Time, list[n].occurs_at)
             THEN Append(rest, [ID |-> UUIDString(list[n].id),
                                Title |-> list[n].title,
                                OccursAt |-> list[n].occurs_at])
             ELSE rest

\* second pass, for one date: the activities on it, in list order
RECURSIVE ActivitiesInnerResponse(_, _, _)
ActivitiesInnerResponse(list, item, n) ==
    IF n = 0 THEN <<>>
    ELSE LET rest == ActivitiesInnerResponse(list, item, n - 1)
         IN  IF SameDate(item.Time, list[n].occurs_at)
             THEN Append(rest, [ID |-> UUIDString(list[n].id),
                                Title |-> list[n].title,
                                OccursAt |-> list[n].occurs_at])
             ELSE rest

\* the second pass: the outer array is made with qtd slots and slot i is
\* assigned for the i-th entry of differentDates; a slot past the entries
\* keeps the zero value
ZeroOuterArray == [Date |-> 0, Activities |-> <<>>]

SecondPass(list, firstPass) ==
    [i \in 1 .. firstPass.qtd |->
        IF i <= Len(firstPass.differentDates)
        THEN [Date |-> firstPass.differentDates[i].Time,
              Activities |-> ActivitiesInnerResponse(list,
                                                     firstPass.differentDates[i],
                                                     Len(list))]
        ELSE ZeroOuterArray]

ActivitiesResponse(list) == SecondPass(list, FirstPass(list, Len(list)))

\* an entry past the qtd slots is an index out of range: the handler
\* panics and writes no answer
GetTripsTripIDActivitiesResponse(err, list) ==
    IF err = "ErrNoRows" THEN Response(400, "Activities not found")
    ELSE IF err # "" THEN Response(400, SomethingWrong)
    ELSE LET firstPass == FirstPass(list, Len(list))
         IN  IF Len(firstPass.differentDates) > firstPass.qtd
             THEN NoResponse
             ELSE [Response(200, "") EXCEPT !.activities = SecondPass(list, firstPass)]

GetTripsTripIDActivities(p) ==
    /\ CanStart(p)
    /\ calls' = calls + 1
    /\ \E text \in IdTexts, fail \in BOOLEAN :
        LET parsed == ParseUUID(text)
            op == "GetTripsTripIDActivities"
        IN  IF parsed.err
            THEN last' = Call(op, 0, Response(400, "Invalid trip ID"), 0, FALSE)
            ELSE last' = [Call(op, parsed.id,
                               GetTripsTripIDActivitiesResponse(
                                   IF fail THEN "conn" ELSE "",
                                   GetTripActivities(parsed.id)),
                               0, fail)
                             EXCEPT !.reads = 1]
    /\ UNCHANGED <<trips, participants, activities, pending, sent, req, hist>>

(* POST /trips/{tripId}/activities *)

CreateActivityParams(id, body) ==
    [TripID |-> id, Title |-> body.title, OccursAt |-> body.occurs_at]

\* variant: the error of store.CreateActivity is dropped
PostTripsTripIDActivitiesResponseIgnoringError(err, activityID) ==
    [Response(201, "") EXCEPT !.activityId = UUIDString(activityID)]

PostTripsTripIDActivitiesResponse(err, activityID) ==
    IF err # ""
    THEN Response(400, SomethingWrong)
    ELSE [Response(201, "") EXCEPT !.activityId = UUIDString(activityID)]

PostTripsTripIDActivities(p) ==
    /\ CanStart(p)
    /\ calls' = calls + 1
    /\ \E text \in IdTexts, body \in CreateActivityRequests, fail \in BOOLEAN :
        LET parsed == ParseUUID(text)
            op == "PostTripsTripIDActivities"
            res == IF fail THEN [err |-> "conn", id |-> 0, rows |-> activities]
                   ELSE CreateActivity(CreateActivityParams(parsed.id, body))
            call(id, resp, writes, failed) ==
                [Call(op, id, resp, writes, failed) EXCEPT !.body = body]
        IN  IF parsed.err
            THEN /\ last' = call(0, Response(400, "Invalid trip ID"), 0, FALSE)
                 /\ UNCHANGED activities
            ELSE IF ~ValidCreateActivityRequest(body)
            THEN /\ last' = call(parsed.id, Response(400, "Invalid request body"),
                                 0, FALSE)
                 /\ UNCHANGED activities
            ELSE /\ fail \/ Cardinality(DOMAIN activities) < MaxActivities
                 /\ activities' = res.rows
                 /\ last' = call(parsed.id,
                                 PostTripsTripIDActivitiesResponse(res.err, res.id),
                                 1, fail)
    /\ UNCHANGED <<trips, participants, pending, sent, req, hist>>

----------------------------------------------------------------------------
(* The mailer (package mailpit): each notification runs as a goroutine of   *)
(* its own and reads the store when it runs.                                *)

Mail(kind, trip, to) ==
    [kind |-> kind, trip_id |-> trip.id, to |-> to,
     owner_name |-> trip.owner_name, destination |-> trip.destination,
     starts_at |-> trip.starts_at]

\* one recipient's turn in a run: the message built for it, and whether
\* building it and handing it to the transport succeeded
Attempt(mail, ok) == [mail |-> mail, ok |-> ok]

\* a run of a notification: which one, the error it returned ("" for nil,
\* "lookup" for a failed store read, "send" for a failed recipient), and its
\* attempts in order
Run(kind, tripID, err, attempts) ==
    [kind |-> kind, trip_id |-> tripID, err |-> err, attempts |-> attempts]

NoRun == Run("none", 0, "", <<>>)

\* variant: the message is built from the trip as it was when the
\* notification was spawned
SendConfirmTripEmailToTripOwnerSnapshot(tripID) ==
    /\ pending[<<"owner", tripID>>] > 0
    /\ pending' = [pending EXCEPT ![<<"owner", tripID>>] = @ - 1]
    /\ \E lookupFails \in BOOLEAN, sendFails \in BOOLEAN :
        LET got == IF lookupFails THEN ConnError ELSE GetTrip(tripID)
            msg == Mail("owner", hist.created[tripID], got.trip.owner_email)
        IN  IF got.err # ""
            THEN sent' = Run("owner", tripID, "lookup", <<>>)
            ELSE IF sendFails
            THEN sent' = Run("owner", tripID, "send", <<Attempt(msg, FALSE)>>)
            ELSE sent' = Run("owner", tripID, "", <<Attempt(msg, TRUE)>>)
    /\ hist' = [hist EXCEPT !.runs[<<"owner", tripID>>] = @ + 1]
    /\ UNCHANGED <<trips, participants, activities, req, calls, last>>

\* variant: a failed run turns the answer of the call that spawned it into
\* a failure
SendConfirmTripEmailToTripOwnerReported(tripID) ==
    /\ pending[<<"owner", tripID>>] > 0
    /\ pending' = [pending EXCEPT ![<<"owner", tripID>>] = @ - 1]
    /\ \E lookupFails \in BOOLEAN, sendFails \in BOOLEAN :
        LET got == IF lookupFails THEN ConnError ELSE GetTrip(tripID)
            msg == Mail("owner", got.trip, got.trip.owner_email)
        IN  IF got.err # ""
            THEN /\ sent' = Run("owner", tripID, "lookup", <<>>)
                 /\ last' = [last EXCEPT !.resp = Response(400, SomethingWrong)]
            ELSE IF sendFails
            THEN /\ sent' = Run("owner", tripID, "send", <<Attempt(msg, FALSE)>>)
                 /\ last' = [last EXCEPT !.resp = Response(400, SomethingWrong)]
            ELSE /\ sent' = Run("owner", tripID, "", <<Attempt(msg, TRUE)>>)
                 /\ last' = last
    /\ hist' = [hist EXCEPT !.runs[<<"owner", tripID>>] = @ + 1]
    /\ UNCHANGED <<trips, participants, activities, req, calls>>

SendConfirmTripEmailToTripOwner(tripID) ==
    /\ pending[<<"owner", tripID>>] > 0
    /\ pending' = [pending EXCEPT ![<<"owner", tripID>>] = @ - 1]
    /\ \E lookupFails \in BOOLEAN, sendFails \in BOOLEAN :
        LET got == IF lookupFails THEN ConnError ELSE GetTrip(tripID)
            msg == Mail("owner", got.trip, got.trip.owner_email)
        IN  IF got.err # ""
            THEN sent' = Run("owner", tripID, "lookup", <<>>)
            ELSE IF sendFails
            THEN sent' = Run("owner", tripID, "send", <<Attempt(msg, FALSE)>>)
            ELSE sent' = Run("owner", tripID, "", <<Attempt(msg, TRUE)>>)
    /\ hist' = [hist EXCEPT !.runs[<<"owner", tripID>>] = @ + 1]
    /\ UNCHANGED <<trips, participants, activities, req, calls, last>>

\* variant: the loop passes over the participant that is the owner
SendConfirmTripEmailToTripParticipantsSkipOwner(tripID) ==
    /\ pending[<<"participants", tripID>>] > 0
    /\ pending' = [pending EXCEPT ![<<"participants", tripID>>] = @ - 1]
    /\ \E lookupFails \in BOOLEAN, listFails \in BOOLEAN :
        LET got == IF lookupFails THEN ConnError ELSE GetTrip(tripID)
            NotOwner(participant) == participant.email # got.trip.owner_email
            list == SelectSeq(GetParticipants(tripID), NotOwner)
            msg(i) == Mail("participants", got.trip, list[i].email)
        IN  IF got.err # "" \/ listFails
            THEN sent' = Run("participants", tripID, "lookup", <<>>)
            ELSE \E n \in 0 .. Len(list) :
                    IF n = Len(list)
                    THEN sent' = Run("participants", tripID, "",
                                     [i \in 1 .. n |-> Attempt(msg(i), TRUE)])
                    ELSE sent' = Run("participants", tripID, "send",
                                     [i \in 1 .. n + 1 |-> Attempt(msg(i), i <= n)])
    /\ hist' = [hist EXCEPT !.runs[<<"participants", tripID>>] = @ + 1]
    /\ UNCHANGED <<trips, participants, activities, req, calls, last>>

\* the loop over the participants returns at the first recipient that
\* fails: `n` is the number of recipients mailed before that
SendConfirmTripEmailToTripParticipants(tripID) ==
    /\ pending[<<"participants", tripID>>] > 0
    /\ pending' = [pending EXCEPT ![<<"participants", tripID>>] = @ - 1]
    /\ \E lookupFails \in BOOLEAN, listFails \in BOOLEAN :
        LET got == IF lookupFails THEN ConnError ELSE GetTrip(tripID)
            list == GetParticipants(tripID)
            msg(i) == Mail("participants", got.trip, list[i].email)
        IN  IF got.err # "" \/ listFails
            THEN sent' = Run("participants", tripID, "lookup", <<>>)
            ELSE \E n \in 0 .. Len(list) :
                    IF n = Len(list)
                    THEN sent' = Run("participants", tripID, "",
                                     [i \in 1 .. n |-> Attempt(msg(i), TRUE)])
                    ELSE sent' = Run("participants", tripID, "send",
                                     [i \in 1 .. n + 1 |-> Attempt(msg(i), i <= n)])
    /\ hist' = [hist EXCEPT !.runs[<<"participants", tripID>>] = @ + 1]
    /\ UNCHANGED <<trips, participants, activities, req, calls, last>>

----------------------------------------------------------------------------
(* Specifications *)

Init ==
    /\ trips = <<>>
    /\ participants = <<>>
    /\ activities = <<>>
    /\ pending = [k \in NotifKinds \X TripIDs |-> 0]
    /\ sent = NoRun
    /\ req = [p \in Procs |-> Idle]
    /\ calls = 0
    /\ last = [n |-> 0, op |-> "none", id |-> 0, resp |-> NoResponse, writes |-> 0,
               reads |-> 0, storeFailed |-> FALSE, body |-> NoBody,
               seenConfirmed |-> FALSE, parentConfirmed |-> FALSE]
    /\ hist = [tripConfirms |-> [t \in TripIDs |-> 0],
               participantConfirms |-> [n \in ParticipantIDs |-> 0],
               returned |-> <<>>,
               invited |-> <<>>,
               created |-> <<>>,
               runs |-> [k \in NotifKinds \X TripIDs |-> 0]]

Next ==
    \/ \E p \in Procs : PostTrips(p)
    \/ \E p \in Procs : GetTripsTripID(p)
    \/ \E p \in Procs : PutTripsTripIDRead(p)
    \/ \E p \in Procs : PutTripsTripIDWrite(p)
    \/ \E p \in Procs : GetTripsTripIDConfirmRead(p)
    \/ \E p \in Procs : GetTripsTripIDConfirmWrite(p)
    \/ \E p \in Procs : PatchParticipantsParticipantIDConfirmRead(p)
    \/ \E p \in Procs : PatchParticipantsParticipantIDConfirmWrite(p)
    \/ \E p \in Procs : GetTripsTripIDParticipants(p)
    \/ \E p \in Procs : GetTripsTripIDActivities(p)
    \/ \E p \in Procs : PostTripsTripIDActivities(p)
    \/ \E t \in TripIDs : SendConfirmTripEmailToTripOwner(t)
    \/ \E t \in TripIDs : SendConfirmTripEmailToTripParticipants(t)

\* requests arrive concurrently, one goroutine each
Spec == Init /\ [][Next]_vars

\* at most one request is in flight at a time
OneAtATime == Cardinality({p \in Procs : req[p].pc = "read"}) <= 1

NextSeq == Next /\ OneAtATime'

SpecSeq == Init /\ [][NextSeq]_vars

\* The activities listing over every stored list: one trip, created with
\* no invited email and its owner mailed, and up to MaxListed activities of
\* it, at any times of MaxDays days, in any order.
ActivityTimes == 1 .. (2 * MaxDays)

InitAgg ==
    LET row == [id |-> 1, destination |-> "Lima", starts_at |-> 2, ends_at |-> 2,
                is_confirmed |-> FALSE, owner_name |-> "Ana",
                owner_email |-> "ana@x.com"]
    IN  /\ trips = (1 :> row)
        /\ participants = (1 :> [id |-> 1, trip_id |-> 1, email |-> "ana@x.com",
                                 is_confirmed |-> TRUE])
        /\ \E n \in 0 .. MaxListed : \E times \in [1 .. n -> ActivityTimes] :
              activities = [a \in 1 .. n |->
                               [id |-> a, trip_id |-> 1, title |-> "Tour",
                                occurs_at |-> times[a]]]
        /\ pending = [k \in NotifKinds \X TripIDs |-> 0]
        /\ sent = Run("owner", 1, "",
                      <<Attempt(Mail("owner", row, row.owner_email), TRUE)>>)
        /\ req = [p \in Procs |-> Idle]
        /\ calls = 0
        /\ last = [n |-> 0, op |-> "none", id |-> 0, resp |-> NoResponse,
                   writes |-> 0, reads |-> 0, storeFailed |-> FALSE, body |-> NoBody,
                   seenConfirmed |-> FALSE, parentConfirmed |-> FALSE]
        /\ hist = [tripConfirms |-> [t \in TripIDs |-> 0],
                   participantConfirms |-> [n \in ParticipantIDs |-> 0],
                   returned |-> <<1>>,
                   invited |-> (1 :> <<>>),
                   created |-> (1 :> row),
                   runs |-> [k \in NotifKinds \X TripIDs |->
                               IF k = <<"owner", 1>> THEN 1 ELSE 0]]

NextAgg == \E p \in Procs : GetTripsTripIDActivities(p)

SpecAgg == InitAgg /\ [][NextAgg]_vars

\* The two handlers that spawn a notification, with the go statement and
\* the return as steps of their own: the goroutine can run before or after
\* the caller is answered.

\* POST /trips up to and including the go statement
PostTripsGo(p) ==
    /\ CanStart(p)
    /\ calls' = calls + 1
    /\ \E body \in CreateTripRequests, fail \in BOOLEAN :
        IF ~ValidCreateTripRequest(body)
        THEN /\ last' = [Call("PostTrips", 0, Response(400, "Invalid request body"),
                              0, FALSE) EXCEPT !.body = body]
             /\ UNCHANGED <<trips, participants, pending, hist, req>>
        ELSE IF fail \/ Cardinality(DOMAIN trips) = MaxTrips
        THEN /\ fail
             /\ last' = [Call("PostTrips", 0, PostTripsResponse("conn", 0), 1, TRUE)
                            EXCEPT !.body = body]
             /\ UNCHANGED <<trips, participants, pending, hist, req>>
        ELSE /\ trips' = trips @@ CreateTripRows(body)
             /\ participants' = participants @@ CreateParticipantRows(body)
             /\ pending' = Spawn("owner", NewTripID)
             /\ req' = [req EXCEPT ![p] =
                            [Idle EXCEPT !.op = "PostTrips", !.pc = "spawned",
                                         !.id = NewTripID]]
             /\ hist' = [hist EXCEPT
                            !.invited = @ @@ (NewTripID :> body.emails_to_invite),
                            !.created = @ @@ CreateTripRows(body)]
             /\ UNCHANGED last
    /\ UNCHANGED <<sent, activities>>

\* return spec.PostTripsJSON201Response(...)
PostTripsReturn(p) ==
    /\ req[p].op = "PostTrips" /\ req[p].pc = "spawned"
    /\ req' = [req EXCEPT ![p] = Idle]
    /\ last' = Call("PostTrips", req[p].id, PostTripsResponse("", req[p].id), 1, FALSE)
    /\ hist' = [hist EXCEPT !.returned = Append(@, ParseUUID(last'.resp.tripId).id)]
    /\ UNCHANGED <<trips, participants, activities, pending, sent, calls>>

\* GET /trips/{tripId}/confirm from the store write up to and including the
\* go statement
GetTripsTripIDConfirmGo(p) ==
    /\ req[p].op = "GetTripsTripIDConfirm" /\ req[p].pc = "read"
    /\ \E fail \in BOOLEAN :
        IF fail
        THEN /\ req' = [req EXCEPT ![p] = Idle]
             /\ last' = [Call(req[p].op, req[p].id, Response(400, SomethingWrong),
                              1, TRUE) EXCEPT !.reads = 1]
             /\ UNCHANGED <<trips, pending>>
        ELSE /\ trips' = UpdateTrip(GetTripsTripIDConfirmParams(req[p].id, req[p].trip))
             /\ pending' = Spawn("participants", req[p].id)
             /\ req' = [req EXCEPT ![p].pc = "spawned"]
             /\ UNCHANGED last
    /\ UNCHANGED <<participants, sent, activities, calls, hist>>

\* return spec.GetTripsTripIDConfirmJSON204Response(nil)
GetTripsTripIDConfirmReturn(p) ==
    /\ req[p].op = "GetTripsTripIDConfirm" /\ req[p].pc = "spawned"
    /\ req' = [req EXCEPT ![p] = Idle]
    /\ last' = [Call(req[p].op, req[p].id, Response(204, ""), 1, FALSE)
                   EXCEPT !.reads = 1]
    /\ hist' = [hist EXCEPT !.tripConfirms[req[p].id] = @ + 1]
    /\ UNCHANGED <<trips, participants, activities, pending, sent, calls>>

NextFair ==
    \/ \E p \in Procs : PostTripsGo(p)
    \/ \E p \in Procs : PostTripsReturn(p)
    \/ \E p \in Procs : GetTripsTripIDConfirmRead(p)
    \/ \E p \in Procs : GetTripsTripIDConfirmGo(p)
    \/ \E p \in Procs : GetTripsTripIDConfirmReturn(p)
    \/ \E p \in Procs : GetTripsTripID(p)
    \/ \E p \in Procs : PutTripsTripIDRead(p)
    \/ \E p \in Procs : PutTripsTripIDWrite(p)
    \/ \E p \in Procs : PatchParticipantsParticipantIDConfirmRead(p)
    \/ \E p \in Procs : PatchParticipantsParticipantIDConfirmWrite(p)
    \/ \E p \in Procs : GetTripsTripIDParticipants(p)
    \/ \E p \in Procs : GetTripsTripIDActivities(p)
    \/ \E p \in Procs : PostTripsTripIDActivities(p)
    \/ \E t \in TripIDs : SendConfirmTripEmailToTripOwner(t)
    \/ \E t \in TripIDs : SendConfirmTripEmailToTripParticipants(t)

\* a spawned goroutine is not left waiting for ever; the server is not
\* shut down
SpecFair ==
    /\ Init
    /\ [][NextFair]_vars
    /\ \A t \in TripIDs : WF_vars(SendConfirmTripEmailToTripOwner(t))
    /\ \A t \in TripIDs : WF_vars(SendConfirmTripEmailToTripParticipants(t))

----------------------------------------------------------------------------
(* Properties *)

\* a call was answered in this step; last' is its record
Responded == last'.n = last.n + 1

AlreadyConfirmedTrip == Response(400, "Trip already confirmed")

AlreadyConfirmedParticipant == Response(400, "Participant already confirmed")

C2_ConcurrentConfirmTripOneSuccess ==
    [][(/\ Responded
        /\ last'.op = "GetTripsTripIDConfirm"
        /\ last'.id \in DOMAIN trips
        /\ ~last'.storeFailed
        /\ trips[last'.id].is_confirmed)
       => last'.resp = AlreadyConfirmedTrip]_vars

\* C3: once a stored trip is confirmed it stays confirmed, in every step of
\* every interleaving of the handlers.
C3_TripConfirmationMonotonic ==
    [][\A t \in DOMAIN trips : trips[t].is_confirmed => trips'[t].is_confirmed]_vars

\* C4: with requests one after another, a ConfirmParticipant whose store
\* accesses succeed is answered 204 when the participant is unconfirmed (its
\* first and only 204) and "Participant already confirmed" otherwise, with no
\* write; the parent trip's state plays no part in the answer.
C4_ConfirmParticipantOnceInSequence ==
    [][(/\ Responded
        /\ last'.op = "PatchParticipantsParticipantIDConfirm"
        /\ last'.id \in DOMAIN participants
        /\ ~last'.storeFailed)
       => IF participants[last'.id].is_confirmed
          THEN /\ last'.resp = AlreadyConfirmedParticipant
               /\ last'.writes = 0
               /\ participants' = participants
               /\ hist' = hist
          ELSE /\ last'.resp = Response(204, "")
               /\ participants'[last'.id].is_confirmed
               /\ hist'.participantConfirms[last'.id] = 1]_vars

C4_Witness ==
    /\ last.op = "PatchParticipantsParticipantIDConfirm"
    /\ last.resp = Response(204, "")
    /\ last.parentConfirmed
    /\ hist.participantConfirms[last.id] = 1

\* C5: a ConfirmParticipant that is answered when another call has already
\* confirmed the participant is answered "Participant already confirmed".
C5_ConcurrentConfirmParticipantOneSuccess ==
    [][(/\ Responded
        /\ last'.op = "PatchParticipantsParticipantIDConfirm"
        /\ last'.id \in DOMAIN participants
        /\ ~last'.storeFailed
        /\ participants[last'.id].is_confirmed)
       => last'.resp = AlreadyConfirmedParticipant]_vars

\* C6: no step of any handler or notification takes a participant's
\* is_confirmed from true to false.
C6_ParticipantConfirmationMonotonic ==
    [][\A n \in DOMAIN participants :
          participants[n].is_confirmed => participants'[n].is_confirmed]_vars

C6_Witness ==
    /\ \E n \in DOMAIN participants :
          participants[n].is_confirmed /\ hist.participantConfirms[n] = 1
    /\ last.op = "PutTripsTripID"
    /\ last.resp.status = 204

\* C7: with requests one after another, an UpdateTrip answered 204 leaves
\* the row with the submitted destination, starts_at and ends_at and with
\* the id, is_confirmed and owner it had, and leaves every other row alone.
C7_UpdateTripReplacesFieldsOnly ==
    [][(/\ Responded
        /\ last'.op = "PutTripsTripID"
        /\ last'.resp.status = 204)
       => /\ last'.id \in DOMAIN trips
          /\ trips' = [trips EXCEPT ![last'.id] =
                          [@ EXCEPT !.destination = last'.body.destination,
                                    !.starts_at = last'.body.starts_at,
                                    !.ends_at = last'.body.ends_at]]
          /\ trips'[last'.id].is_confirmed = trips[last'.id].is_confirmed
          /\ trips'[last'.id].id = last'.id
          /\ participants' = participants]_vars

C7_Witness ==
    /\ last.op = "PutTripsTripID"
    /\ last.resp.status = 204
    /\ trips[last.id].is_confirmed
    /\ trips[last.id].destination = "Lima"
    /\ hist.tripConfirms[last.id] = 1

\* C8: an UpdateTrip with a well-formed id of no stored trip, whose lookup
\* reaches the store, is answered "Trip not found", invokes no store write
\* and leaves both tables as they were.
C8_UpdateTripNotFound ==
    [][(/\ Responded
        /\ last'.op = "PutTripsTripID"
        /\ last'.id \in TripIDs \ DOMAIN trips
        /\ ~last'.storeFailed)
       => /\ last'.resp = Response(400, "Trip not found")
          /\ last'.writes = 0
          /\ trips' = trips
          /\ participants' = participants]_vars

C8_Witness ==
    /\ last.op = "PutTripsTripID"
    /\ last.resp = Response(400, "Trip not found")
    /\ last.writes = 0
    /\ DOMAIN trips # {}
    /\ last.id \notin DOMAIN trips

\* C9: a CreateTrip with a valid body whose store call succeeds is answered
\* 201 with an id that no earlier CreateTrip returned, and GetTrip on that id
\* right after answers 200 with is_confirmed false and the submitted
\* destination, starts_at and ends_at.
C9_CreateTripFreshIdAndReadBack ==
    [][\A id \in TripIDs :
        (/\ Responded
         /\ last'.op = "PostTrips"
         /\ ValidCreateTripRequest(last'.body)
         /\ ~last'.storeFailed
         /\ last'.id = id)
        => /\ last'.resp = [Response(201, "") EXCEPT !.tripId = UUIDString(id)]
           /\ \A i \in 1 .. Len(hist.returned) : hist.returned[i] # id
           /\ (GetTripsTripIDResponse(GetTrip(id)))' =
                [Response(200, "") EXCEPT !.trip =
                    [ID |-> UUIDString(id),
                     Destination |-> last'.body.destination,
                     EndsAt |-> last'.body.ends_at,
                     StartsAt |-> last'.body.starts_at,
                     IsConfirmed |-> FALSE]]]_vars

C9_Witness ==
    /\ last.op = "PostTrips"
    /\ last.resp.status = 201
    /\ Len(hist.returned) = 2
    /\ hist.returned[1] # hist.returned[2]

\* C10: in every state each stored trip has exactly its owner's participant
\* row and one row per invited email, and every participant row points at a
\* stored trip; a CreateTrip whose store call fails is answered 400 and
\* leaves both tables as they were.
AllOrNothing ==
    /\ DOMAIN hist.invited = DOMAIN trips
    /\ \A n \in DOMAIN participants : participants[n].trip_id \in DOMAIN trips
    /\ \A t \in DOMAIN trips :
          LET list == GetParticipants(t)
          IN  /\ Len(list) = 1 + Len(hist.invited[t])
              /\ list[1].email = trips[t].owner_email
              /\ \A i \in 1 .. Len(hist.invited[t]) :
                    list[i + 1].email = hist.invited[t][i]

C10_CreateTripAllOrNothing ==
    /\ []AllOrNothing
    /\ [][(Responded /\ last'.op = "PostTrips")
          => /\ last'.storeFailed => last'.resp.status = 400
             /\ last'.resp.status # 201 =>
                   /\ trips' = trips
                   /\ participants' = participants
                   /\ pending' = pending]_vars

C10_Witness ==
    /\ last.op = "PostTrips"
    /\ last.storeFailed
    /\ last.resp.status = 400
    /\ \E t \in DOMAIN trips : Len(hist.invited[t]) = 1

\* C11: right after a CreateTrip answered 201 for a body with k invited
\* emails, the participants of the new trip, as the participants listing
\* returns them, are k+1: the owner's, confirmed, then one per invited email
\* in order, unconfirmed; the rows the call added are exactly these, each
\* points at the new trip, and the rows of other trips are as they were.
C11_CreateTripParticipants ==
    [][\A id \in TripIDs :
        (/\ Responded
         /\ last'.op = "PostTrips"
         /\ last'.resp.status = 201
         /\ last'.id = id)
        => LET list == (GetParticipants(id))'
               shown == (GetTripsTripIDParticipantsResponse(
                             "", GetParticipants(id)))'.participants
               invited == last'.body.emails_to_invite
               added == DOMAIN participants' \ DOMAIN participants
           IN  /\ Len(shown) = Len(invited) + 1
               /\ shown[1].Email = last'.body.owner_email
               /\ shown[1].IsConfirmed
               /\ \A i \in 1 .. Len(invited) :
                     /\ shown[i + 1].Email = invited[i]
                     /\ ~shown[i + 1].IsConfirmed
               /\ added = {list[i].id : i \in 1 .. Len(list)}
               /\ Cardinality(added) = Len(invited) + 1
               /\ \A n \in added : participants'[n].trip_id = id
               /\ \A n \in DOMAIN participants :
                     /\ participants'[n] = participants[n]
                     /\ participants[n].trip_id # id]_vars

C11_Witness ==
    /\ last.op = "PostTrips"
    /\ last.resp.status = 201
    /\ Len(last.body.emails_to_invite) = 1
    /\ Cardinality(DOMAIN trips) = 2
    /\ Len(GetParticipants(last.id)) = 2
    /\ Cardinality(DOMAIN participants) > 2

\* C12: a CreateTrip whose body has a destination shorter than 4
\* characters, an owner or invited email that is no email, no start, no end
\* or no owner name is answered "Invalid request body" with no store call,
\* no notification spawned and every table as it was; an UpdateTrip whose
\* body is invalid in the same way, and a CreateActivity with no title or no
\* time, invoke no store write and change no table.
InvalidEmail(e) == e \notin {"ana@x.com", "bob@x.com"}

NothingWritten ==
    /\ last'.writes = 0
    /\ trips' = trips
    /\ participants' = participants
    /\ activities' = activities
    /\ pending' = pending

C12_InvalidBodyWritesNothing ==
    [][Responded =>
        /\ (/\ last'.op = "PostTrips"
            /\ \/ Len(last'.body.destination) < 4
               \/ InvalidEmail(last'.body.owner_email)
               \/ \E i \in 1 .. Len(last'.body.emails_to_invite) :
                     InvalidEmail(last'.body.emails_to_invite[i])
               \/ last'.body.starts_at = 0
               \/ last'.body.ends_at = 0
               \/ last'.body.owner_name = "")
           => /\ last'.resp = Response(400, "Invalid request body")
              /\ last'.reads = 0
              /\ NothingWritten
        /\ (/\ last'.op = "PutTripsTripID"
            /\ req' # req
            /\ \/ Len(last'.body.destination) < 4
               \/ last'.body.starts_at = 0
               \/ last'.body.ends_at = 0)
           => /\ last'.resp = Response(400, "Invalid request body")
              /\ NothingWritten
        /\ (/\ last'.op = "PostTripsTripIDActivities"
            /\ \/ last'.body.title = ""
               \/ last'.body.occurs_at = 0)
           => /\ last'.resp = IF last'.id = 0
                              THEN Response(400, "Invalid trip ID")
                              ELSE Response(400, "Invalid request body")
              /\ last'.reads = 0
              /\ NothingWritten]_vars

C12_Witness ==
    /\ last.op = "PostTrips"
    /\ Len(last.body.destination) < 4
    /\ last.resp = Response(400, "Invalid request body")
    /\ DOMAIN trips # {}
    /\ DOMAIN activities # {}

\* C13: a call of an operation that takes a trip id or a participant id
\* whose textual id is no uuid (its record carries the id 0) is answered
\* "Invalid trip ID" or "Invalid participant ID" and invokes no store read
\* and no store write: every table is as it was.
TakesTripID ==
    {"GetTripsTripID", "PutTripsTripID", "GetTripsTripIDConfirm",
     "GetTripsTripIDParticipants", "GetTripsTripIDActivities",
     "PostTripsTripIDActivities"}

C13_MalformedIdBeforeStore ==
    [][(/\ Responded
        /\ last'.op \in TakesTripID \cup {"PatchParticipantsParticipantIDConfirm"}
        /\ last'.id = 0)
       => /\ last'.resp = IF last'.op \in TakesTripID
                          THEN Response(400, "Invalid trip ID")
                          ELSE Response(400, "Invalid participant ID")
          /\ last'.reads = 0
          /\ ~last'.storeFailed
          /\ NothingWritten
          /\ req' = req]_vars

C13_Witness ==
    /\ last.op = "PatchParticipantsParticipantIDConfirm"
    /\ last.id = 0
    /\ last.resp = Response(400, "Invalid participant ID")
    /\ last.reads = 0
    /\ DOMAIN participants # {}

\* C14: a CreateTrip or UpdateTrip whose body has ends_at before starts_at
\* is answered "Invalid request body" and invokes no store write, and no
\* stored trip has ends_at before starts_at.
StartNotAfterEnd == \A t \in DOMAIN trips : trips[t].starts_at <= trips[t].ends_at

C14_StartNotAfterEndEnforced ==
    /\ [][(/\ Responded
           /\ \/ last'.op = "PostTrips"
              \/ last'.op = "PutTripsTripID" /\ req' # req
           /\ last'.body.ends_at < last'.body.starts_at)
          => /\ last'.resp = Response(400, "Invalid request body")
             /\ last'.writes = 0
             /\ trips' = trips]_vars
    /\ []StartNotAfterEnd

\* C15: a CreateTrip or ConfirmTrip whose store write succeeded is answered
\* 201 / 204 in the step that spawns its notification, before the
\* notification has run; and a run of a notification, whether it sends,
\* fails at the lookup or fails at a recipient, changes neither the answer
\* any call was given nor any table.
NotificationRuns == \E k \in DOMAIN pending : pending'[k] < pending[k]

C15_NotificationNeverChangesOutcome ==
    [][/\ NotificationRuns =>
            /\ last' = last
            /\ trips' = trips
            /\ participants' = participants
            /\ activities' = activities
       /\ (Responded /\ last'.op = "PostTrips" /\ trips' # trips) =>
            /\ last'.resp.status = 201
            /\ pending'[<<"owner", last'.id>>] = pending[<<"owner", last'.id>>] + 1
            /\ sent' = sent
       /\ (/\ Responded
           /\ last'.op = "GetTripsTripIDConfirm"
           /\ last'.writes = 1
           /\ ~last'.storeFailed) =>
            /\ last'.resp = Response(204, "")
            /\ pending'[<<"participants", last'.id>>] =
                  pending[<<"participants", last'.id>>] + 1
            /\ sent' = sent]_vars

C15_Witness ==
    /\ last.op = "GetTripsTripIDConfirm"
    /\ last.resp = Response(204, "")
    /\ sent.kind = "participants"
    /\ sent.trip_id = last.id
    /\ sent.err = "send"
    /\ pending[<<"participants", last.id>>] = 0
    /\ pending[<<"owner", last.id>>] = 1

\* C16: the participants notification of a trip is spawned only by the step
\* in which a ConfirmTrip of that trip is answered 204, once, with the
\* store write made and the row confirmed; a ConfirmTrip answered anything
\* else (invalid id, not found, already confirmed, store failure) spawns
\* no notification.
C16_ConfirmTripSchedulesOnSuccessOnly ==
    [][/\ \A t \in TripIDs :
            pending'[<<"participants", t>>] > pending[<<"participants", t>>]
            => /\ Responded
               /\ last'.op = "GetTripsTripIDConfirm"
               /\ last'.id = t
               /\ last'.resp = Response(204, "")
               /\ last'.writes = 1
               /\ ~last'.storeFailed
               /\ trips'[t].is_confirmed
               /\ pending' = [pending EXCEPT ![<<"participants", t>>] = @ + 1]
       /\ (/\ Responded
           /\ last'.op = "GetTripsTripIDConfirm"
           /\ last'.resp # Response(204, ""))
          => pending' = pending]_vars

C16_Witness ==
    /\ last.op = "GetTripsTripIDConfirm"
    /\ last.storeFailed
    /\ last.writes = 1
    /\ last.resp = Response(400, SomethingWrong)
    /\ hist.tripConfirms[last.id] = 1
    /\ trips[last.id].is_confirmed
    /\ pending[<<"participants", last.id>>] = 1

\* C17: the owner notification of a trip id is spawned only by the step in
\* which a CreateTrip is answered 201 with that id, the id of the trip it
\* stored, and that step spawns it once; a CreateTrip answered 400 spawns
\* nothing; and no owner notification, waiting or run, has an id that no
\* CreateTrip returned, nor is more than one ever waiting for an id.
OwnerNotificationsOfReturnedIds ==
    \A t \in TripIDs :
        /\ pending[<<"owner", t>>] <= 1
        /\ (pending[<<"owner", t>>] > 0 \/ (sent.kind = "owner" /\ sent.trip_id = t))
           => \E i \in 1 .. Len(hist.returned) : hist.returned[i] = t

C17_CreateTripSchedulesOwnerOnce ==
    /\ []OwnerNotificationsOfReturnedIds
    /\ [][/\ \A t \in TripIDs :
               pending'[<<"owner", t>>] > pending[<<"owner", t>>]
               => /\ Responded
                  /\ last'.op = "PostTrips"
                  /\ last'.resp = [Response(201, "") EXCEPT !.tripId = UUIDString(t)]
                  /\ t \in DOMAIN trips' \ DOMAIN trips
          /\ (Responded /\ last'.op = "PostTrips") =>
               IF last'.resp.status = 201
               THEN \E t \in DOMAIN trips' \ DOMAIN trips :
                       /\ last'.resp.tripId = UUIDString(t)
                       /\ pending' = [pending EXCEPT ![<<"owner", t>>] = @ + 1]
               ELSE pending' = pending /\ trips' = trips]_vars

C17_Witness ==
    /\ last.op = "PostTrips"
    /\ last.storeFailed
    /\ last.resp.status = 400
    /\ DOMAIN trips = {1}
    /\ hist.returned = <<1>>
    /\ pending[<<"owner", 1>>] = 1

\* C18: a run of the participants notification that got past its lookups
\* makes an attempt for every participant of the trip, whether or not an
\* earlier recipient's attempt failed.
C18_FailureDoesNotAbortRemaining ==
    (sent.kind = "participants" /\ sent.err # "lookup")
    => Len(sent.attempts) = Len(GetParticipants(sent.trip_id))

\* C19: the messages of a notification run carry the owner name, the
\* destination and the start of the trip as the store holds them when the
\* run happens, and go to the addresses the store holds then: an UpdateTrip
\* that completes between the spawning call's answer and the run shows in
\* the messages.
C19_NotificationReadsAtSendTime ==
    [][(NotificationRuns /\ sent'.err # "lookup")
       => /\ sent'.trip_id \in DOMAIN trips
          /\ \A i \in 1 .. Len(sent'.attempts) :
                LET mail == sent'.attempts[i].mail
                    trip == trips[mail.trip_id]
                IN  /\ mail.trip_id = sent'.trip_id
                    /\ mail.destination = trip.destination
                    /\ mail.starts_at = trip.starts_at
                    /\ mail.owner_name = trip.owner_name
                    /\ mail.to = IF sent'.kind = "owner"
                                 THEN trip.owner_email
                                 ELSE GetParticipants(mail.trip_id)[i].email]_vars

C19_Witness ==
    /\ sent.kind = "owner"
    /\ sent.err = ""
    /\ last.op = "PutTripsTripID"
    /\ last.resp = Response(204, "")
    /\ last.id = sent.trip_id
    /\ hist.created[sent.trip_id].destination = "Roma"
    /\ sent.attempts[1].mail.destination = "Lima"
    /\ sent.attempts[1].mail.starts_at = 2

\* C20: from the state in which a ConfirmTrip of a trip was answered 204
\* on, in every state, a GetTrip of that trip answers 200 with is_confirmed
\* true, whether its participants notification is waiting, has sent or has
\* failed.
C20_ConfirmedFromSuccessOn ==
    \A t \in TripIDs :
        hist.tripConfirms[t] > 0
        => GetTripsTripIDResponse(GetTrip(t)) =
              [Response(200, "") EXCEPT !.trip =
                  [TripDetails(trips[t]) EXCEPT !.IsConfirmed = TRUE]]

\* C25: a ConfirmTrip or ConfirmParticipant with a well-formed id that is
\* answered before its write is answered the generic failure when its read
\* met a store error, "... not found" when the store has no such row, and
\* "... already confirmed" when the row is confirmed, and in no other case;
\* it invokes no store write and leaves every table as it was.
C25_ConfirmFailureKinds ==
    [][(Responded /\ req' = req /\ last'.id # 0) =>
        /\ last'.op = "GetTripsTripIDConfirm" =>
            /\ last'.resp =
                  IF last'.storeFailed THEN Response(400, SomethingWrong)
                  ELSE IF last'.id \notin DOMAIN trips
                  THEN Response(400, "Trip not found")
                  ELSE AlreadyConfirmedTrip
            /\ (~last'.storeFailed /\ last'.id \in DOMAIN trips)
               => trips[last'.id].is_confirmed
            /\ NothingWritten
        /\ last'.op = "PatchParticipantsParticipantIDConfirm" =>
            /\ last'.resp =
                  IF last'.storeFailed THEN Response(400, SomethingWrong)
                  ELSE IF last'.id \notin DOMAIN participants
                  THEN Response(400, "Participant not found")
                  ELSE AlreadyConfirmedParticipant
            /\ (~last'.storeFailed /\ last'.id \in DOMAIN participants)
               => participants[last'.id].is_confirmed
            /\ NothingWritten]_vars

C25_Witness ==
    /\ last.op = "PatchParticipantsParticipantIDConfirm"
    /\ last.resp = Response(400, "Participant not found")
    /\ last.id \in ParticipantIDs \ DOMAIN participants
    /\ last.writes = 0
    /\ DOMAIN participants # {}

\* C26: in every state the trip of every stored activity is a stored trip;
\* a CreateActivity with a well-formed id of no stored trip is answered 400
\* and stores no activity.
ActivitiesReferenceTrips ==
    \A a \in DOMAIN activities : activities[a].trip_id \in DOMAIN trips

C27_TripsStayActivitiesImmutable ==
    [][/\ \A t \in DOMAIN trips :
             /\ t \in DOMAIN trips'
             /\ trips[t].id = t
             /\ trips'[t].id = t
       /\ \A a \in DOMAIN activities :
             /\ a \in DOMAIN activities'
             /\ activities'[a] = activities[a]]_vars

C27_Witness ==
    /\ last.op = "PostTripsTripIDActivities"
    /\ last.resp.status = 201
    /\ Cardinality(DOMAIN activities) = 2
    /\ \A a \in DOMAIN activities : activities[a].id = a /\ activities[a].title = "Tour"

\* C28: the step in which a ConfirmTrip is answered 204 changes the row's
\* is_confirmed only: the destination, starts_at and ends_at stored after
\* it are those stored before it, also when an UpdateTrip wrote them after
\* the ConfirmTrip had read the row.
C28_ConfirmTripChangesOnlyIsConfirmed ==
    [][(/\ Responded
        /\ last'.op = "GetTripsTripIDConfirm"
        /\ last'.resp = Response(204, ""))
       => trips' = [trips EXCEPT ![last'.id].is_confirmed = TRUE]]_vars

\* C29: a participants notification is spawned for a trip only when no
\* ConfirmTrip of that trip was answered 204 before, so at most one is ever
\* spawned per trip.
C29_OneParticipantsNotificationPerTrip ==
    [][\A t \in TripIDs :
          pending'[<<"participants", t>>] > pending[<<"participants", t>>]
          => hist.tripConfirms[t] = 0]_vars

\* C30: a ConfirmTrip whose store write fails is answered the generic
\* failure, spawns no notification and leaves the trips table as it was, so
\* that, the row being Draft, a ConfirmTrip that reads it next is not
\* rejected; a ConfirmParticipant whose store write fails is answered the
\* generic failure and leaves the participants table as it was, so that,
\* the row being unconfirmed, a ConfirmParticipant that reads it next is
\* not rejected.
C30_FailedWriteLeavesRetryPossible ==
    [][/\ \A t \in TripIDs :
            (/\ Responded
             /\ last'.op = "GetTripsTripIDConfirm"
             /\ last'.id = t
             /\ last'.writes = 1
             /\ last'.storeFailed)
            => /\ last'.resp = Response(400, SomethingWrong)
               /\ pending' = pending
               /\ trips' = trips
               /\ hist' = hist
               /\ ~trips[t].is_confirmed
                  => (GetTripsTripIDConfirmLookup(GetTrip(t)))' = NoResponse
       /\ \A n \in ParticipantIDs :
            (/\ Responded
             /\ last'.op = "PatchParticipantsParticipantIDConfirm"
             /\ last'.id = n
             /\ last'.writes = 1
             /\ last'.storeFailed)
            => /\ last'.resp = Response(400, SomethingWrong)
               /\ participants' = participants
               /\ hist' = hist
               /\ ~participants[n].is_confirmed
                  => (PatchParticipantsParticipantIDConfirmLookup(
                          GetParticipant(n)))' = NoResponse]_vars

C30_Witness ==
    /\ last.op = "GetTripsTripIDConfirm"
    /\ last.writes = 1
    /\ last.storeFailed
    /\ last.resp = Response(400, SomethingWrong)
    /\ ~trips[last.id].is_confirmed
    /\ hist.tripConfirms[last.id] = 0
    /\ pending[<<"participants", last.id>>] = 0
    /\ GetTripsTripIDConfirmLookup(GetTrip(last.id)) = NoResponse

\* C32: no step removes a participant or changes a participant's email or
\* trip; a participant added by a step belongs to the trip that step
\* creates; and a step that changes a stored participant is the write of a
\* ConfirmParticipant call, which sets is_confirmed of the participant it
\* was addressed to and leaves every other participant, every trip and
\* every activity as it was.
C32_OnlyConfirmParticipantMutates ==
    [][/\ \A n \in DOMAIN participants :
             /\ n \in DOMAIN participants'
             /\ participants'[n].id = participants[n].id
             /\ participants'[n].email = participants[n].email
             /\ participants'[n].trip_id = participants[n].trip_id
       /\ \A n \in DOMAIN participants' \ DOMAIN participants :
             /\ participants'[n].trip_id \notin DOMAIN trips
             /\ last'.op = "PostTrips"
             /\ last'.id = participants'[n].trip_id
       /\ (\E n \in DOMAIN participants : participants'[n] # participants[n]) =>
             /\ last'.n = last.n + 1
             /\ last'.op = "PatchParticipantsParticipantIDConfirm"
             /\ DOMAIN participants' = DOMAIN participants
             /\ participants' =
                   [participants EXCEPT ![last'.id].is_confirmed = TRUE]
             /\ trips' = trips
             /\ activities' = activities]_vars

C32_Witness ==
    /\ last.op = "PatchParticipantsParticipantIDConfirm"
    /\ last.resp.status = 204
    /\ last.id = 4
    /\ participants[4].is_confirmed
    /\ participants[4].trip_id = 2
    /\ participants[4].email = "bob@x.com"
    /\ 2 \in DOMAIN participants /\ ~participants[2].is_confirmed
    /\ participants[2].trip_id = 1

\* C33: a run of the participants notification of a trip that returns no
\* error has made one attempt per participant the store lists for that trip
\* when it runs, the owner's participant among them, in the order of the
\* list, each to that participant's address and each sent, and no other
\* attempt; a run whose lookup of the trip or of the participants fails has
\* made no attempt.
C33_OneAttemptPerListedParticipant ==
    [][\A t \in TripIDs :
          pending'[<<"participants", t>>] < pending[<<"participants", t>>] =>
              LET list == GetParticipants(t)
              IN  /\ sent'.kind = "participants"
                  /\ sent'.trip_id = t
                  /\ sent'.err = "" =>
                        /\ Len(sent'.attempts) = Len(list)
                        /\ \A i \in 1 .. Len(list) :
                              /\ list[i].trip_id = t
                              /\ sent'.attempts[i].ok
                              /\ sent'.attempts[i].mail.to = list[i].email
                              /\ sent'.attempts[i].mail.trip_id = t
                        /\ \E i \in 1 .. Len(list) :
                              list[i].email = trips[t].owner_email
                        /\ Len(list) =
                              Cardinality({n \in DOMAIN participants :
                                              participants[n].trip_id = t})
                  /\ sent'.err = "lookup" => sent'.attempts = <<>>]_vars

C33_Witness ==
    /\ DOMAIN trips = {1, 2}
    /\ sent = Run("participants", 2, "",
                  <<Attempt(Mail("participants", trips[2], "ana@x.com"), TRUE),
                    Attempt(Mail("participants", trips[2], "bob@x.com"), TRUE)>>)
    /\ pending[<<"participants", 2>>] = 0
    /\ hist.tripConfirms[2] = 1
    /\ Len(GetParticipants(1)) = 2
    /\ Len(GetParticipants(2)) = 2

\* C34: with every spawned notification goroutine getting to run, once n
\* ConfirmTrip calls of a trip have been answered 204 the participants
\* notification of that trip has run, or will have run, n times, and once a
\* CreateTrip has been answered 201 with a trip id the owner notification
\* of that trip has run or will run; the run may come before or after the
\* answer.
C34_SuccessLeadsToNotificationRun ==
    /\ \A t \in TripIDs : \A n \in 1 .. MaxCalls :
          (hist.tripConfirms[t] >= n) ~> (hist.runs[<<"participants", t>>] >= n)
    /\ \A t \in TripIDs :
          (\E i \in 1 .. Len(hist.returned) : hist.returned[i] = t)
          ~> (hist.runs[<<"owner", t>>] >= 1)

\* the CreateTrip of trip 1 was answered and its owner notification has
\* run; the participants notification of a ConfirmTrip of trip 1 has run
\* while that call has not been answered yet
C34_Witness ==
    /\ hist.returned = <<1>>
    /\ hist.runs[<<"owner", 1>>] = 1
    /\ \E p \in Procs :
          /\ req[p].op = "GetTripsTripIDConfirm"
          /\ req[p].pc = "spawned"
          /\ req[p].id = 1
    /\ hist.tripConfirms[1] = 0
    /\ hist.runs[<<"participants", 1>>] = 1
    /\ sent.kind = "participants"
    /\ pending[<<"participants", 1>>] = 0

----------------------------------------------------------------------------
(* The activities listing *)

\* the latest call is an activities listing answered 200; Listed is the
\* list the store holds for its trip, Buckets the answer's outer array
Aggregated == last.op = "GetTripsTripIDActivities" /\ last.resp.status = 200

Listed == GetTripActivities(last.id)

Buckets == last.resp.activities

\* the place in Listed of the activity with that textual id, and of the
\* first activity on that day
PositionOf(text) == CHOOSE k \in 1 .. Len(Listed) : UUIDString(Listed[k].id) = text

FirstSeen(day) ==
    CHOOSE k \in 1 .. Len(Listed) :
        /\ Date(Listed[k].occurs_at) = day
        /\ \A m \in 1 .. k - 1 : Date(Listed[m].occurs_at) # day

InBucket(i, k) ==
    \E m \in 1 .. Len(Buckets[i].Activities) :
        Buckets[i].Activities[m].ID = UUIDString(Listed[k].id)

\* C21: the buckets of a listing come in the order in which their days are
\* first met in the stored list, whatever the days are, and the activities
\* of a bucket are the stored activities of that day in their stored order.
C21_BucketsInFirstSeenOrder ==
    Aggregated =>
        /\ \A i \in 1 .. Len(Buckets) :
              \E k \in 1 .. Len(Listed) :
                  Date(Listed[k].occurs_at) = Date(Buckets[i].Date)
        /\ \A i, j \in 1 .. Len(Buckets) :
              i < j => FirstSeen(Date(Buckets[i].Date)) < FirstSeen(Date(Buckets[j].Date))
        /\ \A i \in 1 .. Len(Buckets) :
              LET OnDay(a) == Date(a.occurs_at) = Date(Buckets[i].Date)
                  same == SelectSeq(Listed, OnDay)
              IN  Buckets[i].Activities =
                     [m \in 1 .. Len(same) |->
                         [ID |-> UUIDString(same[m].id), Title |-> same[m].title,
                          OccursAt |-> same[m].occurs_at]]

C21_Witness ==
    /\ Aggregated
    /\ Len(Listed) = 3
    /\ Date(Listed[1].occurs_at) = 3
    /\ Date(Listed[2].occurs_at) = 1
    /\ Date(Listed[3].occurs_at) = 3
    /\ Len(Buckets) = 2
    /\ Date(Buckets[1].Date) = 3
    /\ Len(Buckets[1].Activities) = 2
    /\ PositionOf(Buckets[1].Activities[1].ID) = 1
    /\ PositionOf(Buckets[1].Activities[2].ID) = 3
    /\ Date(Buckets[2].Date) = 1

\* C22: two stored activities are in one bucket of the listing exactly when
\* their times are on the same day, whatever their times of day; so every
\* activity is in some bucket.
C22_SameBucketIffSameDay ==
    Aggregated =>
        \A a, b \in 1 .. Len(Listed) :
            (\E i \in 1 .. Len(Buckets) : InBucket(i, a) /\ InBucket(i, b))
            <=> ((Listed[a].occurs_at + 1) \div 2 = (Listed[b].occurs_at + 1) \div 2)

C22_Witness ==
    /\ Aggregated
    /\ Len(Listed) = 3
    /\ Listed[1].occurs_at = 3
    /\ Listed[2].occurs_at = 2
    /\ Listed[3].occurs_at = 4
    /\ Len(Buckets) = 2
    /\ InBucket(1, 1) /\ InBucket(1, 3)
    /\ InBucket(2, 2)

\* C23: for every reordering of the stored list, the aggregation of the
\* reordered list has the same days and, for each day, the same set of
\* activity ids as the listing of the stored list.
Reorderings(n) ==
    {f \in [1 .. n -> 1 .. n] : \A a, b \in 1 .. n : f[a] = f[b] => a = b}

Membership(outer) ==
    {[date |-> outer[i].Date,
      ids |-> {outer[i].Activities[m].ID : m \in 1 .. Len(outer[i].Activities)}] :
        i \in 1 .. Len(outer)}

Reordered(f) == [k \in 1 .. Len(Listed) |-> Listed[f[k]]]

C23_MembershipUnderReordering ==
    Aggregated =>
        \A f \in Reorderings(Len(Listed)) :
            /\ Membership(ActivitiesResponse(Reordered(f))) = Membership(Buckets)
            /\ Len(ActivitiesResponse(Reordered(f))) = Len(Buckets)

C23_Witness ==
    /\ Aggregated
    /\ Len(Listed) = 3
    /\ Len(Buckets) = 2
    /\ \E f \in Reorderings(3) :
          /\ ActivitiesResponse(Reordered(f))[1].Date # Buckets[1].Date
          /\ Membership(ActivitiesResponse(Reordered(f))) = Membership(Buckets)

\* C24: the date of every bucket of a listing is a midnight, every bucket
\* has an activity, and every activity of a bucket is on the day of the
\* bucket's date.
TimeOfDay(t) == (t - 1) % 2

C24_BucketDateIsMidnightOfItsDay ==
    Aggregated =>
        \A i \in 1 .. Len(Buckets) :
            /\ TimeOfDay(Buckets[i].Date) = 0
            /\ Len(Buckets[i].Activities) > 0
            /\ \A m \in 1 .. Len(Buckets[i].Activities) :
                  LET t == Buckets[i].Activities[m].OccursAt
                  IN  Buckets[i].Date = t - TimeOfDay(t)

C24_Witness ==
    /\ Aggregated
    /\ Len(Buckets) = 2
    /\ TimeOfDay(Buckets[1].Activities[1].OccursAt) = 1
    /\ Buckets[1].Date = Buckets[1].Activities[1].OccursAt - 1
    /\ TimeOfDay(Buckets[2].Activities[1].OccursAt) = 0

\* the places (bucket, index) at which the answer holds that textual id
Places(text) ==
    UNION {{<<i, m>> : m \in {x \in 1 .. Len(Buckets[i].Activities) :
                                 Buckets[i].Activities[x].ID = text}} :
              i \in 1 .. Len(Buckets)}

\* C31: the listing partitions the stored list: every stored activity is at
\* exactly one place of exactly one bucket and the buckets hold nothing
\* else, no bucket is empty, no two buckets have the same date, and there
\* are as many buckets as distinct days in the list (none for an empty list).
C31_AggregationPartitionsInput ==
    Aggregated =>
        /\ \A k \in 1 .. Len(Listed) :
              Cardinality(Places(UUIDString(Listed[k].id))) = 1
        /\ \A i \in 1 .. Len(Buckets) : \A m \in 1 .. Len(Buckets[i].Activities) :
              \E k \in 1 .. Len(Listed) :
                  Buckets[i].Activities[m].ID = UUIDString(Listed[k].id)
        /\ \A i \in 1 .. Len(Buckets) : Len(Buckets[i].Activities) > 0
        /\ \A i, j \in 1 .. Len(Buckets) : i # j => Buckets[i].Date # Buckets[j].Date
        /\ Len(Buckets) =
              Cardinality({Date(Listed[k].occurs_at) : k \in 1 .. Len(Listed)})
        /\ Len(Listed) = 0 => Buckets = <<>>

C31_Witness ==
    /\ Aggregated
    /\ Len(Listed) = 3
    /\ Len(Buckets) = 2
    /\ Len(Buckets[1].Activities) = 1
    /\ Len(Buckets[2].Activities) = 2
    /\ Buckets[2].Activities[1].OccursAt # Buckets[2].Activities[2].OccursAt
    /\ Places(UUIDString(Listed[2].id)) = {<<2, 1>>}
    /\ Places(UUIDString(Listed[3].id)) = {<<2, 2>>}

\* the first pass of the latest listing at its end, and the activities of
\* the stored list on the date of an entry
Counted == FirstPass(Listed, Len(Listed))

OnDate(t) == {k \in 1 .. Len(Listed) : Date(Listed[k].occurs_at) = Date(t)}

\* C35: at the end of the first pass of a listing, the counter of each
\* date is the number of stored activities on that date and qtd is the
\* number of distinct dates; so the outer array has one slot per entry,
\* none left at its zero value, and each inner array ends with as many
\* activities as the capacity it was made with.
C35_FirstPassCounts ==
    Aggregated =>
        LET differentDates == Counted.differentDates
            qtd == Counted.qtd
        IN  /\ \A i \in 1 .. Len(differentDates) :
                  differentDates[i].Amount =
                      Cardinality(OnDate(differentDates[i].Time))
            /\ qtd = Cardinality({Date(Listed[k].occurs_at) : k \in 1 .. Len(Listed)})
            /\ qtd = Len(differentDates)
            /\ Len(Buckets) = qtd
            /\ \A i \in 1 .. Len(Buckets) :
                  /\ Buckets[i] # ZeroOuterArray
                  /\ Len(Buckets[i].Activities) = differentDates[i].Amount

C35_Witness ==
    /\ Aggregated
    /\ Len(Listed) = 3
    /\ Counted.qtd = 2
    /\ Len(Counted.differentDates) = 2
    /\ Counted.differentDates[1].Amount = 2
    /\ Counted.differentDates[2].Amount = 1
    /\ OnDate(Counted.differentDates[1].Time) = {1, 3}
    /\ Len(Buckets[1].Activities) = 2

====
